---- MODULE Spec2Model ----
(***************************************************************************)
(* ngx-svg: Angular directives that mirror their inputs onto svg.js shapes *)
(* kept in one shared container.  The model holds the container's child    *)
(* list, the host elements' DOM order, every directive's inputs and its    *)
(* stored shape reference, and every shape's attributes, classes and       *)
(* registered event listeners.  Each lifecycle hook is one action.         *)
(***************************************************************************)
EXTENDS Integers, Sequences, FiniteSets, TLC

VARIABLES
  container,  \* TRUE once SvgContainerComponent.getContainer() is non-null
  dom,        \* host elements (directive ids), children of the parent element
  dirs,       \* directive id -> [kind, inp, shape, destroyed, inits]
  shapes,     \* every shape ever created, shape id = index
  children,   \* the container's children (shape ids), in order
  emitted,    \* the outputs emitted by the last DOM event
  op,         \* the last lifecycle call: [name, dir]
  changes,    \* argument of the last getClassesToAddAndRemove call
  diff,       \* its result
  turn,       \* index in dom of the next host of the running view check pass
  error       \* the TypeError the last hook call ended in, if any

vars == <<container, dom, dirs, shapes, children, emitted, op, changes, diff, turn, error>>

(***************************************************************************)
(* Bounds.                                                                 *)
(***************************************************************************)
MaxShapes == 2      \* shapes one directive creates (the standalone ellipse re-creates)
MaxListeners == 3   \* listeners per event on one shape (the image re-registers)
MaxClasses == 2     \* length of a classes input in the lifecycle specifications
MaxLen == 2         \* length of a class list given to getClassesToAddAndRemove

(***************************************************************************)
(* Values.                                                                 *)
(***************************************************************************)
Null == 0                       \* a null shape reference / container.get() miss
NullPoints == "null"            \* points input left null
ClassNames == {"a", " a", "b"}  \* " a" differs from "a" by surrounding whitespace
EventTypes == {"click", "dblclick", "mouseover", "mouseout"}
Outputs == {"clickEvent", "doubleClickEvent", "mouseOverEvent", "mouseOutEvent"}

StandaloneKinds == {"rect", "circle", "ellipse", "line", "polyline", "polygon", "path", "text"}
BaseKinds == {"circleBase", "ellipseBase", "lineBase", "polylineBase", "pathBase", "textBase", "image"}
Kinds == StandaloneKinds \cup BaseKinds

SeqsUpTo(S, n) == UNION {[1..k -> S] : k \in 0..n}

\* String.prototype.trim on the modelled class names.
Trim(name) == IF name = " a" THEN "a" ELSE name

(***************************************************************************)
(* The values of a numeric input.  A binding ([x]="2") delivers the number *)
(* n, modelled as the integer n >= 0; a template attribute (x="2")         *)
(* delivers the numeric string, modelled as the integer -n - 1.            *)
(***************************************************************************)
StringOf(n) == -n - 1
IsString(v) == v < 0
\* Number(v), +v, and the operands of /
ToNumber(v) == IF IsString(v) THEN -v - 1 ELSE v

RECURSIVE Shift(_)
Shift(n) == IF n < 10 THEN 10 ELSE 10 * Shift(n \div 10)
\* The decimal digits of a followed by those of b.
Concat(a, b) == a * Shift(b) + b

\* a + b: the sum of two numbers, the concatenation when either is a string.
Plus(a, b) ==
  IF IsString(a) \/ IsString(b) THEN StringOf(Concat(ToNumber(a), ToNumber(b)))
  ELSE a + b
\* v / 2
Half(v) == ToNumber(v) \div 2

\* The inputs of a directive as its constructor and field initialisers leave them.
DefaultInputs(kind) ==
  [x |-> 0, y |-> 0,
   width  |-> IF kind = "image" THEN 100 ELSE 0,
   height |-> IF kind = "image" THEN 100 ELSE 0,
   rx |-> 0, ry |-> 0, diameter |-> 0,
   color |-> "#000",
   fill |-> IF kind \in {"path", "pathBase"} THEN "" ELSE "#000",
   borderColor |-> "#000",
   borderSize |-> IF kind \in {"path", "pathBase"} THEN 2 ELSE 0,
   points |-> NullPoints, path |-> "", text |-> "", size |-> 10, imageUrl |-> "",
   x0 |-> 0, y0 |-> 0, x1 |-> 1, y1 |-> 1,
   classes |-> <<>>]

(***************************************************************************)
(* svg.js, as the directives use it.  A state st is [dirs, shapes,         *)
(* children, error]; a shape is [owner, type, attr, classes, listeners].   *)
(* error is set by a call on null or undefined: the TypeError ends the     *)
(* running hook, so every later statement finds it set and does nothing.   *)
(***************************************************************************)
NoError == "none"
NullShape == "TypeError: this._shape is null"
NoList == "TypeError: classes value is undefined"
NoParent == "TypeError: nativeElement.parentElement is null"

State(d, s, c) == [dirs |-> d, shapes |-> s, children |-> c, error |-> NoError]
Failed(st) == st.error # NoError

NoListeners == [e \in EventTypes |-> <<>>]

\* container.rect(..) / .circle(..) / ...: a new element, appended to the container.
NewShape(owner, type, attr) ==
  [owner |-> owner, type |-> type, attr |-> attr, classes |-> {}, listeners |-> NoListeners]

NextId(st) == Len(st.shapes) + 1

Put(st, sh) ==
  IF Failed(st) THEN st
  ELSE [st EXCEPT !.shapes = Append(@, sh), !.children = Append(@, NextId(st))]

\* element.attr(..), and the setters that come down to it.
WithAttr(sh, f) == [sh EXCEPT !.attr = f @@ @]

\* element.on(event, listener): one more listener, emitting the given output.
On(sh, evt, output) == [sh EXCEPT !.listeners[evt] = Append(@, output)]

\* The four .on(..) calls every directive chains.
RegisterEvents(sh) ==
  On(On(On(On(sh, "click", "clickEvent"), "dblclick", "doubleClickEvent"),
        "mouseover", "mouseOverEvent"), "mouseout", "mouseOutEvent")

\* element.hasClass / addClass / removeClass: the class attribute is split on
\* whitespace, the name is compared unsplit.
HasClass(sh, name) == name \in sh.classes
AddClass(sh, name) ==
  IF HasClass(sh, name) THEN sh ELSE [sh EXCEPT !.classes = @ \cup {Trim(name)}]
RemoveClass(sh, name) ==
  IF HasClass(sh, name) THEN [sh EXCEPT !.classes = @ \ {name}] ELSE sh

\* Index (from 0) of an element of a sequence without repetitions.
IndexOf(seq, e) == (CHOOSE i \in 1..Len(seq) : seq[i] = e) - 1
Has(seq, e) == \E i \in 1..Len(seq) : seq[i] = e
Without(seq, e) == SelectSeq(seq, LAMBDA x : x # e)
InsertAt(seq, i, e) == SubSeq(seq, 1, i) \o <<e>> \o SubSeq(seq, i + 1, Len(seq))

\* container.get(i): the i-th child, or nothing.
Get(ch, i) == IF i + 1 <= Len(ch) THEN ch[i + 1] ELSE Null
\* shape.position(): the shape's index among its parent's children.
ShapePosition(ch, s) == IndexOf(ch, s)
\* shape.insertBefore(target): target.before(shape) removes the shape, then adds
\* it at the index the target has after the removal.
InsertBefore(ch, s, target) ==
  LET rest == Without(ch, s) IN InsertAt(rest, IndexOf(rest, target), s)
\* shape.remove()
Remove(ch, s) == Without(ch, s)


\* The chained setters of svg.js, by the attributes they set.
Size(sh, w, h) == WithAttr(sh, [width |-> w, height |-> h])
Fill(sh, c) == WithAttr(sh, [fill |-> c])
Move(sh, x, y) == WithAttr(sh, [x |-> x, y |-> y])
Radius(sh, rx, ry) == WithAttr(sh, [rx |-> rx, ry |-> ry])
Centre(sh, cx, cy) == WithAttr(sh, [cx |-> cx, cy |-> cy])
Stroke(sh, c, w) == WithAttr(sh, [stroke |-> c, strokeWidth |-> w])
Plot(sh, p) == WithAttr(sh, [plot |-> p])
Font(sh, size) == WithAttr(sh, [fontSize |-> size])
TextOf(sh, t) == WithAttr(sh, [text |-> t])
Load(sh, url) == WithAttr(sh, [href |-> url])

(***************************************************************************)
(* What all directives share.                                              *)
(***************************************************************************)
Inp(st, d) == st.dirs[d].inp
Kind(st, d) == st.dirs[d].kind
ShapeOf(st, d) == st.dirs[d].shape

\* this._shape = <new shape>, the shape being the one just put.
Store(st, d) == IF Failed(st) THEN st ELSE [st EXCEPT !.dirs[d].shape = Len(st.shapes)]

\* Apply a setter chain f to the directive's stored shape: this._shape.size(..)..
\* is a TypeError when this._shape is null.
OnShape(st, d, f(_)) ==
  IF Failed(st) THEN st
  ELSE IF ShapeOf(st, d) = Null THEN [st EXCEPT !.error = NullShape]
  ELSE [st EXCEPT !.shapes[ShapeOf(st, d)] = f(@)]

\* this.onInitialize.emit(shape)
EmitInit(st, d) == IF Failed(st) THEN st ELSE [st EXCEPT !.dirs[d].inits = @ + 1]

\* Array.prototype.slice.call(parentElement.children).indexOf(nativeElement)
Position(d) == IndexOf(dom, d)

\* setCorrectPosition exchanging the shape with the child at the host's index.
setCorrectPosition_swapping(st, d) ==
  LET shape == ShapeOf(st, d) IN
  IF Failed(st) \/ ~container \/ shape = Null THEN st
  ELSE LET position == Position(d)
           target == Get(st.children, position)
           swap(x) == IF x = shape THEN target ELSE IF x = target THEN shape ELSE x
       IN IF target # Null /\ ShapePosition(st.children, shape) # position
          THEN [st EXCEPT !.children = [i \in 1..Len(@) |-> swap(@[i])]]
          ELSE st

\* setCorrectPosition adding the shape to the container again when the host
\* has left its parent.
setCorrectPosition_readding(st, d) ==
  LET shape == ShapeOf(st, d) IN
  IF Failed(st) \/ ~container \/ shape = Null THEN st
  ELSE IF ~Has(dom, d)
       THEN IF Has(st.children, shape) THEN st
            ELSE [st EXCEPT !.children = Append(@, shape)]
  ELSE LET position == Position(d) IN
       IF Get(st.children, position) # Null /\ ShapePosition(st.children, shape) # position
       THEN [st EXCEPT !.children = InsertBefore(@, shape, Get(st.children, position))]
       ELSE st

\* A host that has left the DOM has no parentElement: reading its children throws.
setCorrectPosition(st, d) ==
  LET shape == ShapeOf(st, d) IN
  IF Failed(st) \/ ~container \/ shape = Null THEN st
  ELSE IF ~Has(dom, d) THEN [st EXCEPT !.error = NoParent]
  ELSE LET position == Position(d) IN
       IF Get(st.children, position) # Null /\ ShapePosition(st.children, shape) # position
       THEN [st EXCEPT !.children = InsertBefore(@, shape, Get(st.children, position))]
       ELSE st

\* The base class trims a class name before it adds or removes it; the
\* standalone directives pass it as given.
ClassArg(kind, name) == IF kind \in BaseKinds THEN Trim(name) ELSE name

RECURSIVE RemoveClasses(_, _, _)
RemoveClasses(sh, kind, list) ==
  IF list = <<>> THEN sh
  ELSE RemoveClasses(RemoveClass(sh, ClassArg(kind, Head(list))), kind, Tail(list))

RECURSIVE AddClasses(_, _, _)
AddClasses(sh, kind, list) ==
  IF list = <<>> THEN sh
  ELSE AddClasses(AddClass(sh, ClassArg(kind, Head(list))), kind, Tail(list))

\* addRemoveClasses switching each class to add: added when absent, removed
\* when present.
addRemoveClasses_toggling(st, d, classesToAdd, classesToRemove) ==
  LET toggle(sh) ==
        [sh EXCEPT !.classes =
           (@ \ {Trim(classesToAdd[k]) : k \in 1..Len(classesToAdd)})
             \cup ({Trim(classesToAdd[k]) : k \in 1..Len(classesToAdd)} \ @)]
  IN IF Failed(st) \/ ShapeOf(st, d) = Null THEN st
     ELSE [st EXCEPT !.shapes[ShapeOf(st, d)] =
             toggle(RemoveClasses(@, Kind(st, d), classesToRemove))]

addRemoveClasses(st, d, classesToAdd, classesToRemove) ==
  IF Failed(st) \/ ShapeOf(st, d) = Null THEN st
  ELSE [st EXCEPT !.shapes[ShapeOf(st, d)] =
          AddClasses(RemoveClasses(@, Kind(st, d), classesToRemove), Kind(st, d), classesToAdd)]

(***************************************************************************)
(* The class-list diff.  A list value is [ref, items]: !== compares the    *)
(* references; ref = Null stands for undefined.                            *)
(***************************************************************************)
ListValue(ref, items) == [ref |-> ref, items |-> items]
Undefined == ListValue(Null, <<>>)
NoDiff == [threw |-> FALSE, classesToAdd |-> <<>>, classesToRemove |-> <<>>]

\* list.filter(x => !other.some(y => y === x))
NotIn(list, other) == SelectSeq(list, LAMBDA x : ~Has(other, x))

\* The diff with its two filters exchanged.
getClassesToAddAndRemove_swapped(ch) ==
  IF "classes" \in DOMAIN ch /\ ch.classes.currentValue.ref # ch.classes.previousValue.ref
  THEN IF ch.classes.previousValue = Undefined \/ ch.classes.currentValue = Undefined
       THEN [NoDiff EXCEPT !.threw = TRUE]
       ELSE [threw |-> FALSE,
             classesToRemove |-> NotIn(ch.classes.currentValue.items, ch.classes.previousValue.items),
             classesToAdd |-> NotIn(ch.classes.previousValue.items, ch.classes.currentValue.items)]
  ELSE NoDiff

getClassesToAddAndRemove(ch) ==
  IF "classes" \in DOMAIN ch /\ ch.classes.currentValue.ref # ch.classes.previousValue.ref
  THEN IF ch.classes.previousValue = Undefined \/ ch.classes.currentValue = Undefined
       THEN [NoDiff EXCEPT !.threw = TRUE]
       ELSE [threw |-> FALSE,
             classesToRemove |-> NotIn(ch.classes.previousValue.items, ch.classes.currentValue.items),
             classesToAdd |-> NotIn(ch.classes.currentValue.items, ch.classes.previousValue.items)]
  ELSE NoDiff

\* The part of ngOnChanges that follows the update, in every directive.
applyClassChanges(st, d, ch) ==
  LET r == getClassesToAddAndRemove(ch) IN
  IF Failed(st) THEN st
  ELSE IF r.threw THEN [st EXCEPT !.error = NoList]
  ELSE addRemoveClasses(st, d, r.classesToAdd, r.classesToRemove)


\* The same diff, written inline in the standalone directives' ngOnChanges.
inlineClassChanges(st, d, ch) ==
  IF Failed(st) THEN st
  ELSE IF "classes" \in DOMAIN ch /\ ch.classes.currentValue.ref # ch.classes.previousValue.ref
  THEN IF ch.classes.previousValue = Undefined \/ ch.classes.currentValue = Undefined
       THEN [st EXCEPT !.error = NoList]
       ELSE addRemoveClasses(st, d,
              NotIn(ch.classes.currentValue.items, ch.classes.previousValue.items),
              NotIn(ch.classes.previousValue.items, ch.classes.currentValue.items))
  ELSE st

\* The end of every create method that stored its shape: position, classes, output.
finishCreate(st, d) ==
  EmitInit(addRemoveClasses(setCorrectPosition(st, d), d, Inp(st, d).classes, <<>>), d)

(***************************************************************************)
(* svg-rect (standalone)                                                   *)
(***************************************************************************)
updateRect(st, d) ==
  LET i == Inp(st, d)
      set(sh) == Move(Radius(Fill(Size(sh, i.width, i.height), i.color), i.rx, i.ry), i.x, i.y)
  IN IF ShapeOf(st, d) = Null THEN st ELSE setCorrectPosition(OnShape(st, d, set), d)

createRect(st, d) ==
  LET i == Inp(st, d)
      sh == RegisterEvents(Radius(Move(Fill(
              NewShape(d, "rect", [width |-> i.width, height |-> i.height]),
              i.color), i.x, i.y), i.rx, i.ry))
  IN IF ~container THEN st ELSE finishCreate(Store(Put(st, sh), d), d)

(***************************************************************************)
(* svg-circle (standalone, then on the base class)                         *)
(***************************************************************************)
updateCircle(st, d) ==
  LET i == Inp(st, d)
      set(sh) == Centre(Fill(Size(sh, i.diameter, i.diameter), i.color),
                        Plus(ToNumber(i.x), Half(i.diameter)),
                        Plus(ToNumber(i.y), Half(i.diameter)))
  IN setCorrectPosition(IF ShapeOf(st, d) = Null THEN st ELSE OnShape(st, d, set), d)

createCircle(st, d) ==
  LET i == Inp(st, d)
      sh == RegisterEvents(Centre(Fill(
              NewShape(d, "circle", [width |-> i.diameter, height |-> i.diameter]), i.color),
              Plus(ToNumber(i.x), Half(i.diameter)), Plus(ToNumber(i.y), Half(i.diameter))))
  IN IF ~container THEN st ELSE finishCreate(Store(Put(st, sh), d), d)

Circle_setAttributes(st, d) ==
  LET i == Inp(st, d)
      set(sh) == Centre(Fill(Size(sh, i.diameter, i.diameter), i.color),
                        Plus(ToNumber(i.x), Half(i.diameter)),
                        Plus(ToNumber(i.y), Half(i.diameter)))
      st1 == IF ShapeOf(st, d) = Null THEN st ELSE OnShape(st, d, set)
  IN addRemoveClasses(setCorrectPosition(st1, d), d, i.classes, <<>>)

Circle_updateShape(st, d) == Circle_setAttributes(st, d)

Circle_createShape(st, d) ==
  LET i == Inp(st, d)
      sh == RegisterEvents(NewShape(d, "circle", [width |-> i.diameter, height |-> i.diameter]))
  IN IF ~container THEN st ELSE EmitInit(Circle_setAttributes(Store(Put(st, sh), d), d), d)

(***************************************************************************)
(* svg-ellipse (standalone, then on the base class)                        *)
(***************************************************************************)
updateEllipse(st, d) ==
  LET i == Inp(st, d)
      set(sh) == Centre(Fill(Size(sh, i.width, i.height), i.color),
                        Plus(ToNumber(i.x), Half(i.width)),
                        Plus(ToNumber(i.y), Half(i.height)))
  IN IF ShapeOf(st, d) = Null THEN st ELSE setCorrectPosition(OnShape(st, d, set), d)

\* The new ellipse is never assigned to this._ellipse: the calls that follow
\* find no shape, and onInitialize is not reached.
createEllipse(st, d) ==
  LET i == Inp(st, d)
      sh == RegisterEvents(Centre(Fill(
              NewShape(d, "ellipse", [width |-> i.width, height |-> i.height]), i.color),
              Plus(ToNumber(i.x), Half(i.width)), Plus(ToNumber(i.y), Half(i.height))))
      st1 == addRemoveClasses(setCorrectPosition(Put(st, sh), d), d, i.classes, <<>>)
  IN IF ~container THEN st
     ELSE IF ShapeOf(st1, d) = Null THEN st1 ELSE EmitInit(st1, d)

Ellipse_setAttributes(st, d) ==
  LET i == Inp(st, d)
      set(sh) == Centre(Fill(Size(sh, i.width, i.height), i.color),
                        Plus(i.x, Half(i.width)), Plus(i.y, Half(i.height)))
  IN addRemoveClasses(setCorrectPosition(OnShape(st, d, set), d), d, i.classes, <<>>)

Ellipse_updateShape(st, d) == Ellipse_setAttributes(st, d)

\* createShape without the assignment to this._shape, as in createEllipse.
Ellipse_createShape_unstored(st, d) ==
  LET i == Inp(st, d)
      sh == RegisterEvents(NewShape(d, "ellipse", [width |-> i.width, height |-> i.height]))
  IN IF ~container THEN st ELSE EmitInit(Ellipse_setAttributes(Put(st, sh), d), d)

Ellipse_createShape(st, d) ==
  LET i == Inp(st, d)
      sh == RegisterEvents(NewShape(d, "ellipse", [width |-> i.width, height |-> i.height]))
  IN IF ~container THEN st ELSE EmitInit(Ellipse_setAttributes(Store(Put(st, sh), d), d), d)

(***************************************************************************)
(* svg-line (standalone, then on the base class)                           *)
(***************************************************************************)
updateLine(st, d) ==
  LET i == Inp(st, d)
      set(sh) == Stroke(Plot(sh, <<i.x0, i.y0, i.x1, i.y1>>), i.borderColor, i.borderSize)
  IN IF ShapeOf(st, d) = Null THEN st ELSE setCorrectPosition(OnShape(st, d, set), d)

createLine(st, d) ==
  LET i == Inp(st, d)
      sh == RegisterEvents(Stroke(
              NewShape(d, "line", [plot |-> <<i.x0, i.y0, i.x1, i.y1>>]),
              i.borderColor, i.borderSize))
  IN IF ~container THEN st ELSE finishCreate(Store(Put(st, sh), d), d)

Line_updateShape(st, d) ==
  LET i == Inp(st, d)
      set(sh) == Stroke(Plot(sh, <<i.x0, i.y0, i.x1, i.y1>>), i.borderColor, i.borderSize)
  IN IF ShapeOf(st, d) = Null THEN st
     ELSE addRemoveClasses(setCorrectPosition(OnShape(st, d, set), d), d, i.classes, <<>>)

Line_createShape(st, d) == createLine(st, d)


(***************************************************************************)
(* svg-polyline (standalone, then on the base class) and svg-polygon       *)
(***************************************************************************)
updatePolyline(st, d) ==
  LET i == Inp(st, d)
      set(sh) == Stroke(Fill(Plot(sh, i.points), i.fill), i.borderColor, i.borderSize)
  IN IF ShapeOf(st, d) = Null \/ i.points = NullPoints THEN st
     ELSE setCorrectPosition(OnShape(st, d, set), d)

createPolyline(st, d) ==
  LET i == Inp(st, d)
      sh == RegisterEvents(Stroke(Fill(
              NewShape(d, "polyline", [plot |-> i.points]), i.fill),
              i.borderColor, i.borderSize))
  IN IF ~container \/ i.points = NullPoints THEN st
     ELSE finishCreate(Store(Put(st, sh), d), d)

Polyline_updateShape(st, d) ==
  LET i == Inp(st, d)
      set(sh) == Stroke(Fill(Plot(sh, i.points), i.fill), i.borderColor, i.borderSize)
  IN IF ShapeOf(st, d) = Null \/ i.points = NullPoints THEN st
     ELSE setCorrectPosition(addRemoveClasses(OnShape(st, d, set), d, i.classes, <<>>), d)

Polyline_createShape(st, d) == createPolyline(st, d)

updatePolygon(st, d) ==
  LET i == Inp(st, d)
      set(sh) == Stroke(Fill(Plot(sh, i.points), i.fill), i.borderColor, i.borderSize)
  IN IF ShapeOf(st, d) = Null \/ i.points = NullPoints THEN st
     ELSE setCorrectPosition(OnShape(st, d, set), d)

createPolygon(st, d) ==
  LET i == Inp(st, d)
      sh == RegisterEvents(Stroke(Fill(
              NewShape(d, "polygon", [plot |-> i.points]), i.fill),
              i.borderColor, i.borderSize))
  IN IF ~container \/ i.points = NullPoints THEN st
     ELSE finishCreate(Store(Put(st, sh), d), d)

(***************************************************************************)
(* svg-path (on the base class, then standalone)                           *)
(***************************************************************************)
Transparent == "rgba(0, 0, 0, 0)"
\* The fill passed on as it is.
FillOr_asGiven(fill) == fill

\* this.fill || 'rgba(0, 0, 0, 0)'
FillOr(fill) == IF fill = "" THEN Transparent ELSE fill

Path_setAttributes(st, d) ==
  LET i == Inp(st, d)
      set(sh) == Move(Fill(Stroke(Plot(sh, i.path), i.borderColor, i.borderSize),
                           FillOr(i.fill)), i.x, i.y)
  IN IF ShapeOf(st, d) = Null THEN st ELSE OnShape(st, d, set)

Path_updateShape(st, d) ==
  setCorrectPosition(addRemoveClasses(Path_setAttributes(st, d), d, Inp(st, d).classes, <<>>), d)

Path_createShape(st, d) ==
  LET sh == NewShape(d, "path", [plot |-> Inp(st, d).path])
      st1 == Path_setAttributes(Store(Put(st, sh), d), d)
  IN IF ~container THEN st ELSE finishCreate(OnShape(st1, d, RegisterEvents), d)

updatePath(st, d) ==
  LET i == Inp(st, d)
      set(sh) == Move(Fill(Stroke(Plot(sh, i.path), i.borderColor, i.borderSize),
                           FillOr(i.fill)), i.x, i.y)
  IN IF ShapeOf(st, d) = Null THEN st ELSE setCorrectPosition(OnShape(st, d, set), d)

createPath(st, d) ==
  LET i == Inp(st, d)
      sh == RegisterEvents(Move(Fill(Stroke(
              NewShape(d, "path", [plot |-> i.path]), i.borderColor, i.borderSize),
              FillOr(i.fill)), i.x, i.y))
  IN IF ~container THEN st ELSE finishCreate(Store(Put(st, sh), d), d)

(***************************************************************************)
(* svg-text (standalone, then on the base class)                           *)
(***************************************************************************)
\* updateText without its test of the text.
updateText_anyText(st, d) ==
  LET i == Inp(st, d)
      set(sh) == Move(Font(Fill(TextOf(sh, i.text), i.color), i.size), i.x, i.y)
  IN IF ShapeOf(st, d) = Null THEN st
     ELSE setCorrectPosition(OnShape(st, d, set), d)

updateText(st, d) ==
  LET i == Inp(st, d)
      set(sh) == Move(Font(Fill(TextOf(sh, i.text), i.color), i.size), i.x, i.y)
  IN IF ShapeOf(st, d) = Null \/ i.text = "" THEN st
     ELSE setCorrectPosition(OnShape(st, d, set), d)

createText(st, d) ==
  LET i == Inp(st, d)
      sh == RegisterEvents(Move(Font(Fill(
              NewShape(d, "text", [text |-> i.text]), i.color), i.size), i.x, i.y))
  IN IF ~container THEN st ELSE finishCreate(Store(Put(st, sh), d), d)

Text_setAttributes(st, d) ==
  LET i == Inp(st, d)
      set(sh) == Move(Font(Fill(TextOf(sh, i.text), i.color), i.size), i.x, i.y)
  IN IF ShapeOf(st, d) = Null \/ i.text = "" THEN st ELSE OnShape(st, d, set)

Text_updateShape(st, d) ==
  setCorrectPosition(addRemoveClasses(Text_setAttributes(st, d), d, Inp(st, d).classes, <<>>), d)

Text_createShape(st, d) ==
  LET sh == NewShape(d, "text", [text |-> Inp(st, d).text])
      st1 == Text_setAttributes(Store(Put(st, sh), d), d)
  IN IF ~container THEN st ELSE finishCreate(OnShape(st1, d, RegisterEvents), d)

(***************************************************************************)
(* svg-image (on the base class)                                           *)
(***************************************************************************)
loadImage(sh, i) ==
  RegisterEvents(Move(Size(Load(sh, i.imageUrl), i.width, i.height), i.x, i.y))

updateImage(st, d, reloadImage) ==
  LET i == Inp(st, d)
      reload(sh) == loadImage(sh, i)
      resize(sh) == Move(Size(sh, i.width, i.height), i.x, i.y)
  IN IF ShapeOf(st, d) = Null THEN st
     ELSE setCorrectPosition(
            IF reloadImage THEN OnShape(st, d, reload) ELSE OnShape(st, d, resize), d)

Image_createShape(st, d) ==
  LET reload(sh) == loadImage(sh, Inp(st, d))
      st1 == Store(Put(st, NewShape(d, "image", <<>>)), d)
  IN IF ~container THEN st ELSE finishCreate(OnShape(st1, d, reload), d)

\* x && x.currentValue !== x.previousValue
Changed(ch, f) == f \in DOMAIN ch /\ ch[f].currentValue # ch[f].previousValue

\* Image_ngOnChanges reloading the image on a change of any input.
Image_ngOnChanges_reloading(st, d, ch) ==
  IF ShapeOf(st, d) = Null THEN st
  ELSE applyClassChanges(updateImage(st, d, TRUE), d, ch)

Image_ngOnChanges(st, d, ch) ==
  IF ShapeOf(st, d) = Null THEN st
  ELSE applyClassChanges(
         IF Changed(ch, "imageUrl") THEN updateImage(st, d, TRUE)
         ELSE IF Changed(ch, "x") \/ Changed(ch, "y") \/ Changed(ch, "width") \/ Changed(ch, "height")
              THEN updateImage(st, d, FALSE)
              ELSE st,
         d, ch)


(***************************************************************************)
(* The lifecycle hooks, by directive kind.                                 *)
(***************************************************************************)
createShape(st, d) ==
  CASE Kind(st, d) = "rect" -> createRect(st, d)
    [] Kind(st, d) = "circle" -> createCircle(st, d)
    [] Kind(st, d) = "circleBase" -> Circle_createShape(st, d)
    [] Kind(st, d) = "ellipse" -> createEllipse(st, d)
    [] Kind(st, d) = "ellipseBase" -> Ellipse_createShape(st, d)
    [] Kind(st, d) = "line" -> createLine(st, d)
    [] Kind(st, d) = "lineBase" -> Line_createShape(st, d)
    [] Kind(st, d) = "polyline" -> createPolyline(st, d)
    [] Kind(st, d) = "polylineBase" -> Polyline_createShape(st, d)
    [] Kind(st, d) = "polygon" -> createPolygon(st, d)
    [] Kind(st, d) = "path" -> createPath(st, d)
    [] Kind(st, d) = "pathBase" -> Path_createShape(st, d)
    [] Kind(st, d) = "text" -> createText(st, d)
    [] Kind(st, d) = "textBase" -> Text_createShape(st, d)
    [] Kind(st, d) = "image" -> Image_createShape(st, d)

updateShape(st, d) ==
  CASE Kind(st, d) = "rect" -> updateRect(st, d)
    [] Kind(st, d) = "circle" -> updateCircle(st, d)
    [] Kind(st, d) = "circleBase" -> Circle_updateShape(st, d)
    [] Kind(st, d) = "ellipse" -> updateEllipse(st, d)
    [] Kind(st, d) = "ellipseBase" -> Ellipse_updateShape(st, d)
    [] Kind(st, d) = "line" -> updateLine(st, d)
    [] Kind(st, d) = "lineBase" -> Line_updateShape(st, d)
    [] Kind(st, d) = "polyline" -> updatePolyline(st, d)
    [] Kind(st, d) = "polylineBase" -> Polyline_updateShape(st, d)
    [] Kind(st, d) = "polygon" -> updatePolygon(st, d)
    [] Kind(st, d) = "path" -> updatePath(st, d)
    [] Kind(st, d) = "pathBase" -> Path_updateShape(st, d)
    [] Kind(st, d) = "text" -> updateText(st, d)
    [] Kind(st, d) = "textBase" -> Text_updateShape(st, d)

\* The directives that diff the class lists inline; the others call the utility.
InlineDiffKinds == {"rect", "circle", "ellipse", "line", "polyline", "text"}

\* The hook without its test of the shape.
ngOnChanges_unguarded(st, d, ch) ==
  IF Kind(st, d) = "image" THEN applyClassChanges(updateImage(st, d, TRUE), d, ch)
  ELSE IF Kind(st, d) \in InlineDiffKinds THEN inlineClassChanges(updateShape(st, d), d, ch)
  ELSE applyClassChanges(updateShape(st, d), d, ch)

ngOnChanges(st, d, ch) ==
  IF Kind(st, d) = "image" THEN Image_ngOnChanges(st, d, ch)
  ELSE IF ShapeOf(st, d) = Null THEN st
  ELSE IF Kind(st, d) \in InlineDiffKinds THEN inlineClassChanges(updateShape(st, d), d, ch)
  ELSE applyClassChanges(updateShape(st, d), d, ch)

\* The hook with its shape test inverted.
ngAfterViewChecked_inverted(st, d) ==
  IF container /\ ShapeOf(st, d) # Null THEN createShape(st, d) ELSE st

ngAfterViewChecked(st, d) ==
  IF container /\ ShapeOf(st, d) = Null THEN createShape(st, d) ELSE st

\* ngOnDestroy removing the child at the host's index instead of its own shape.
ngOnDestroy_byIndex(st, d) ==
  IF ShapeOf(st, d) = Null \/ Get(st.children, Position(d)) = Null THEN st
  ELSE [st EXCEPT !.children = Remove(@, Get(@, Position(d)))]

ngOnDestroy(st, d) ==
  IF ShapeOf(st, d) = Null THEN st ELSE [st EXCEPT !.children = Remove(@, ShapeOf(st, d))]

(***************************************************************************)
(* The inputs Angular delivers.                                            *)
(***************************************************************************)
Fields(kind) ==
  CASE kind = "rect" -> {"width", "x", "color", "rx", "classes"}
    [] kind \in {"circle", "circleBase"} -> {"diameter", "x", "color", "classes"}
    [] kind \in {"ellipse", "ellipseBase"} -> {"width", "x", "color", "classes"}
    [] kind \in {"line", "lineBase"} -> {"x0", "borderColor", "borderSize", "classes"}
    [] kind \in {"polyline", "polylineBase", "polygon"} -> {"points", "fill", "borderColor", "classes"}
    [] kind \in {"path", "pathBase"} -> {"path", "fill", "x", "classes"}
    [] kind \in {"text", "textBase"} -> {"text", "color", "x", "classes"}
    [] kind = "image" -> {"imageUrl", "x", "width", "classes"}

Values(kind, f) ==
  CASE f \in {"x", "x0", "rx", "diameter", "borderSize"} -> {0, 2}
    [] f = "width" -> IF kind = "image" THEN {100, 50} ELSE {0, 2}
    [] f \in {"color", "borderColor"} -> {"#000", "#fff"}
    [] f = "fill" -> IF kind \in {"path", "pathBase"} THEN {"", "#000", "#fff"} ELSE {"#000", "#fff"}
    [] f = "points" -> {NullPoints, "P1", "P2"}
    [] f = "path" -> {"", "M1"}
    [] f = "text" -> {"", "hi", "yo"}
    [] f = "imageUrl" -> {"", "a.png", "b.png"}
    [] f = "classes" -> SeqsUpTo(ClassNames, MaxClasses)

\* The SimpleChanges record of one changed input.  A replaced classes list is a
\* new array: its reference differs from the previous one's.
SimpleChanges(f, old, new) ==
  IF f = "classes"
  THEN f :> [previousValue |-> ListValue(1, old), currentValue |-> ListValue(2, new)]
  ELSE f :> [previousValue |-> old, currentValue |-> new]

NoChanges == [f \in {} |-> 0]
NoEmission == [o \in Outputs |-> 0]
Op(name, d) == [name |-> name, dir |-> d]

Dirs == DOMAIN dirs
OwnedBy(ss, d) == {s \in 1..Len(ss) : ss[s].owner = d}
ChildrenOf(ch, ss, d) == {s \in OwnedBy(ss, d) : Has(ch, s)}

(***************************************************************************)
(* Actions.                                                                *)
(***************************************************************************)
Commit(st) == /\ dirs' = st.dirs
              /\ shapes' = st.shapes
              /\ children' = st.children
              /\ error' = st.error

\* SvgContainerComponent creates the drawing surface.
ContainerReady ==
  /\ turn = 0
  /\ ~container
  /\ container' = TRUE
  /\ op' = Op("containerReady", Null)
  /\ emitted' = NoEmission
  /\ UNCHANGED <<dom, dirs, shapes, children, changes, diff, turn, error>>

\* A change detection pass checks the views of the hosts in DOM order: the
\* hook of the host whose turn it is runs, and the turn passes on.
NgAfterViewChecked(d) ==
  /\ ~dirs[d].destroyed
  /\ Position(d) = turn
  /\ Cardinality(OwnedBy(shapes, d)) < MaxShapes
  /\ turn' = (turn + 1) % Len(dom)
  /\ Commit(ngAfterViewChecked(State(dirs, shapes, children), d))
  /\ op' = Op("ngAfterViewChecked", d)
  /\ emitted' = NoEmission
  /\ UNCHANGED <<container, dom, changes, diff>>

\* Angular assigns the changed input, then calls ngOnChanges with its record,
\* before the pass checks any view.
NgOnChanges(d, f, v) ==
  /\ turn = 0
  /\ ~dirs[d].destroyed
  /\ f = "classes" \/ v # dirs[d].inp[f]
  /\ f = "imageUrl" /\ dirs[d].shape # Null
       => Len(shapes[dirs[d].shape].listeners["click"]) < MaxListeners
  /\ Commit(ngOnChanges(State([dirs EXCEPT ![d].inp[f] = v], shapes, children), d,
                        SimpleChanges(f, dirs[d].inp[f], v)))
  /\ op' = Op("ngOnChanges", d)
  /\ emitted' = NoEmission
  /\ UNCHANGED <<container, dom, changes, diff, turn>>

\* The first change of the classes binding: its record has no previous value.
\* Angular delivers it in the directive's first pass, before any view check.
NgOnChangesFirst(d, v) ==
  /\ turn = 0
  /\ ~dirs[d].destroyed
  /\ OwnedBy(shapes, d) = {}
  /\ Commit(ngOnChanges(State([dirs EXCEPT ![d].inp.classes = v], shapes, children), d,
                        "classes" :> [previousValue |-> Undefined, currentValue |-> ListValue(2, v)]))
  /\ op' = Op("ngOnChanges", d)
  /\ emitted' = NoEmission
  /\ UNCHANGED <<container, dom, changes, diff, turn>>

\* A hook called on a directive after its ngOnDestroy, by a caller that kept
\* the instance: Angular itself calls none.
LateNgAfterViewChecked(d) ==
  /\ turn = 0
  /\ dirs[d].destroyed
  /\ Cardinality(OwnedBy(shapes, d)) < MaxShapes
  /\ Commit(ngAfterViewChecked(State(dirs, shapes, children), d))
  /\ op' = Op("ngAfterViewChecked", d)
  /\ emitted' = NoEmission
  /\ UNCHANGED <<container, dom, changes, diff, turn>>

LateNgOnChanges(d, f, v) ==
  /\ turn = 0
  /\ dirs[d].destroyed
  /\ f = "classes" \/ v # dirs[d].inp[f]
  /\ f = "imageUrl" /\ dirs[d].shape # Null
       => Len(shapes[dirs[d].shape].listeners["click"]) < MaxListeners
  /\ Commit(ngOnChanges(State([dirs EXCEPT ![d].inp[f] = v], shapes, children), d,
                        SimpleChanges(f, dirs[d].inp[f], v)))
  /\ op' = Op("ngOnChanges", d)
  /\ emitted' = NoEmission
  /\ UNCHANGED <<container, dom, changes, diff, turn>>

\* The view is torn down: the hook runs and the host element leaves the DOM.
NgOnDestroy(d) ==
  /\ turn = 0
  /\ ~dirs[d].destroyed
  /\ Commit(ngOnDestroy(State([dirs EXCEPT ![d].destroyed = TRUE], shapes, children), d))
  /\ dom' = Without(dom, d)
  /\ op' = Op("ngOnDestroy", d)
  /\ emitted' = NoEmission
  /\ UNCHANGED <<container, changes, diff, turn>>

\* The browser dispatches a pointer event on a shape in the container: every
\* listener registered for it runs and emits its output.
Count(seq, e) == Cardinality({i \in 1..Len(seq) : seq[i] = e})

DomEvent(s, evt) ==
  /\ turn = 0
  /\ Has(children, s)
  /\ emitted' = [o \in Outputs |-> Count(shapes[s].listeners[evt], o)]
  /\ op' = Op(evt, shapes[s].owner)
  /\ UNCHANGED <<container, dom, dirs, shapes, children, changes, diff, turn, error>>

(***************************************************************************)
(* Specification: one directive of any kind, with all its inputs changing. *)
(***************************************************************************)
NewDirective(kind) ==
  [kind |-> kind, inp |-> DefaultInputs(kind), shape |-> Null, destroyed |-> FALSE, inits |-> 0]

InitLayout(layout) ==
  /\ container = FALSE
  /\ dom = [i \in 1..Len(layout) |-> i]
  /\ dirs = [i \in 1..Len(layout) |-> NewDirective(layout[i])]
  /\ shapes = <<>>
  /\ children = <<>>
  /\ emitted = NoEmission
  /\ op = Op("init", Null)
  /\ turn = 0
  /\ error = NoError

NoDiffCall == changes = NoChanges /\ diff = NoDiff

Init == NoDiffCall /\ \E kind \in Kinds : InitLayout(<<kind>>)

Next ==
  \/ ContainerReady
  \/ \E d \in Dirs : NgAfterViewChecked(d)
  \/ \E d \in Dirs : \E f \in Fields(dirs[d].kind) :
       \E v \in Values(dirs[d].kind, f) : NgOnChanges(d, f, v)
  \/ \E d \in Dirs : NgOnDestroy(d)
  \/ \E s \in 1..Len(shapes) : \E evt \in EventTypes : DomEvent(s, evt)

Spec == Init /\ [][Next]_vars


(***************************************************************************)
(* Specification: one directive of any kind, with only its content input   *)
(* changing (the lifecycle without the attribute detail).                  *)
(***************************************************************************)
KeyField(kind) ==
  CASE kind = "rect" -> "width"
    [] kind \in {"circle", "circleBase"} -> "diameter"
    [] kind \in {"ellipse", "ellipseBase"} -> "width"
    [] kind \in {"line", "lineBase"} -> "x0"
    [] kind \in {"polyline", "polylineBase", "polygon"} -> "points"
    [] kind \in {"path", "pathBase"} -> "path"
    [] kind \in {"text", "textBase"} -> "text"
    [] kind = "image" -> "imageUrl"

NextLife ==
  \/ ContainerReady
  \/ \E d \in Dirs : NgAfterViewChecked(d)
  \/ \E d \in Dirs : \E v \in Values(dirs[d].kind, KeyField(dirs[d].kind)) :
       NgOnChanges(d, KeyField(dirs[d].kind), v)
  \/ \E d \in Dirs : NgOnDestroy(d)
  \/ \E s \in 1..Len(shapes) : \E evt \in EventTypes : DomEvent(s, evt)

SpecLife == Init /\ [][NextLife]_vars

(***************************************************************************)
(* Specification: three sibling directives in one container, with the      *)
(* inputs changing that decide whether and where a shape is placed.        *)
(***************************************************************************)
OrderKinds == {"rect", "polyline", "circleBase"}
OrderLayouts == {<<a, b, c>> : a \in OrderKinds, b \in OrderKinds, c \in OrderKinds}

OrderInputs(kind) ==
  IF kind = "polyline" THEN {<<"points", NullPoints>>, <<"points", "P1">>}
  ELSE {<<"color", "#000">>, <<"color", "#fff">>}

InitOrder == NoDiffCall /\ \E layout \in OrderLayouts : InitLayout(layout)

NextOrder ==
  \/ ContainerReady
  \/ \E d \in Dirs : NgAfterViewChecked(d)
  \/ \E d \in Dirs : \E i \in OrderInputs(dirs[d].kind) : NgOnChanges(d, i[1], i[2])
  \/ \E d \in Dirs : NgOnDestroy(d)

SpecOrder == InitOrder /\ [][NextOrder]_vars

(***************************************************************************)
(* Specification: getClassesToAddAndRemove on every change record whose    *)
(* classes entry holds lists of at most MaxLen names.                      *)
(***************************************************************************)
ListValues(ref) == {ListValue(ref, items) : items \in SeqsUpTo(ClassNames, MaxLen)}

DiffArgs ==
  {NoChanges} \cup
  {"classes" :> [previousValue |-> p, currentValue |-> c] :
     p \in ListValues(1) \cup {Undefined},
     c \in ListValues(1) \cup ListValues(2) \cup {Undefined}}

\* Two values with one reference are one array.
WellFormed(ch) ==
  "classes" \in DOMAIN ch /\ ch.classes.previousValue.ref = ch.classes.currentValue.ref
    => ch.classes.previousValue = ch.classes.currentValue

InitDiff ==
  /\ InitLayout(<<>>)
  /\ changes \in DiffArgs
  /\ WellFormed(changes)
  /\ diff = NoDiff

CallDiff ==
  /\ op.name = "init"
  /\ diff' = getClassesToAddAndRemove(changes)
  /\ error' = IF diff'.threw THEN NoList ELSE NoError
  /\ op' = Op("getClassesToAddAndRemove", Null)
  /\ UNCHANGED <<container, dom, dirs, shapes, children, emitted, changes, turn>>

NextDiff == CallDiff

SpecDiff == InitDiff /\ [][NextDiff]_vars

(***************************************************************************)
(* Specification: one directive of any kind with its content input, one    *)
(* geometry or stroke input and its classes changing, first changes        *)
(* included.                                                               *)
(***************************************************************************)
ClassLists == {<<>>, <<"a">>, <<"b">>, <<"a", "b">>}

GeometryField(kind) ==
  CASE kind \in {"line", "lineBase"} -> "borderSize"
    [] kind \in {"polyline", "polylineBase", "polygon"} -> "borderColor"
    [] OTHER -> "x"

HookInputs(kind) ==
  {<<KeyField(kind), v>> : v \in Values(kind, KeyField(kind))}
    \cup {<<GeometryField(kind), v>> : v \in Values(kind, GeometryField(kind))}
    \cup {<<"classes", v>> : v \in ClassLists}

NextHooks ==
  \/ ContainerReady
  \/ \E d \in Dirs : NgAfterViewChecked(d)
  \/ \E d \in Dirs : \E i \in HookInputs(dirs[d].kind) : NgOnChanges(d, i[1], i[2])
  \/ \E d \in Dirs : \E v \in ClassLists : NgOnChangesFirst(d, v)
  \/ \E d \in Dirs : NgOnDestroy(d)

SpecHooks == Init /\ [][NextHooks]_vars

(***************************************************************************)
(* Specification: a directive whose update depends on its content input    *)
(* (text, polyline, polygon), after a sibling that may leave its shape     *)
(* behind (the standalone ellipse) or not (rect).                          *)
(***************************************************************************)
ContentKinds == {"text", "textBase", "polyline", "polylineBase", "polygon"}
PairLayouts == {<<a, b>> : a \in {"ellipse", "rect"}, b \in ContentKinds}

InitPair == NoDiffCall /\ \E layout \in PairLayouts : InitLayout(layout)

NextPair ==
  \/ ContainerReady
  \/ \E d \in Dirs : NgAfterViewChecked(d)
  \/ \E d \in Dirs : \E i \in HookInputs(dirs[d].kind) :
       dirs[d].kind \in ContentKinds /\ NgOnChanges(d, i[1], i[2])
  \/ \E d \in Dirs : NgOnDestroy(d)

SpecPair == InitPair /\ [][NextPair]_vars

(***************************************************************************)
(* Specification: an image directive after a sibling, its url, position,   *)
(* size and classes changing.                                              *)
(***************************************************************************)
ImageLayouts == {<<a, "image">> : a \in {"ellipse", "rect"}}
ImageInputs == HookInputs("image") \cup {<<"width", v>> : v \in Values("image", "width")}

InitImage == NoDiffCall /\ \E layout \in ImageLayouts : InitLayout(layout)

NextImage ==
  \/ ContainerReady
  \/ \E d \in Dirs : NgAfterViewChecked(d)
  \/ \E d \in Dirs : \E i \in ImageInputs :
       dirs[d].kind = "image" /\ NgOnChanges(d, i[1], i[2])
  \/ \E d \in Dirs : NgOnDestroy(d)

SpecImage == InitImage /\ [][NextImage]_vars

(***************************************************************************)
(* Specification: a directive of any kind after a rect, with hooks called  *)
(* on it also after its ngOnDestroy.                                       *)
(***************************************************************************)
LateLayouts == {<<"rect", k>> : k \in Kinds}

InitLate == NoDiffCall /\ \E layout \in LateLayouts : InitLayout(layout)

NextLate ==
  \/ ContainerReady
  \/ \E d \in Dirs : NgAfterViewChecked(d)
  \/ \E d \in Dirs : \E i \in HookInputs(dirs[d].kind) :
       d = 2 /\ NgOnChanges(d, i[1], i[2])
  \/ \E d \in Dirs : NgOnDestroy(d)
  \/ \E d \in Dirs : LateNgAfterViewChecked(d)
  \/ \E d \in Dirs : \E i \in HookInputs(dirs[d].kind) :
       d = 2 /\ LateNgOnChanges(d, i[1], i[2])

SpecLate == InitLate /\ [][NextLate]_vars

(***************************************************************************)
(* Specification: one circle or ellipse directive, its x and y arriving as *)
(* numbers or as numeric strings.                                          *)
(***************************************************************************)
CentreKinds == {"circle", "circleBase", "ellipse", "ellipseBase"}
Coordinates == {0, 2, StringOf(2)}

CentreInputs(kind) ==
  {<<KeyField(kind), v>> : v \in Values(kind, KeyField(kind))}
    \cup {<<f, v>> : f \in {"x", "y"}, v \in Coordinates}

InitCentre == NoDiffCall /\ \E kind \in CentreKinds : InitLayout(<<kind>>)

NextCentre ==
  \/ ContainerReady
  \/ \E d \in Dirs : NgAfterViewChecked(d)
  \/ \E d \in Dirs : \E i \in CentreInputs(dirs[d].kind) : NgOnChanges(d, i[1], i[2])
  \/ \E d \in Dirs : NgOnDestroy(d)

SpecCentre == InitCentre /\ [][NextCentre]_vars

(***************************************************************************)
(* Specification: a directive of any kind after a sibling that may leave   *)
(* its shape behind (the standalone ellipse) or not (rect).                *)
(***************************************************************************)
SiblingLayouts == {<<a, k>> : a \in {"ellipse", "rect"}, k \in Kinds}

InitSibling == NoDiffCall /\ \E layout \in SiblingLayouts : InitLayout(layout)

NextSibling ==
  \/ ContainerReady
  \/ \E d \in Dirs : NgAfterViewChecked(d)
  \/ \E d \in Dirs : \E i \in HookInputs(dirs[d].kind) :
       d = 2 /\ NgOnChanges(d, i[1], i[2])
  \/ \E d \in Dirs : NgOnDestroy(d)

SpecSibling == InitSibling /\ [][NextSibling]_vars

(***************************************************************************)
(* Specification: one path directive of either version, its fill, path,    *)
(* position and classes changing.                                          *)
(***************************************************************************)
PathKinds == {"path", "pathBase"}
PathInputs(kind) == HookInputs(kind) \cup {<<"fill", v>> : v \in Values(kind, "fill")}

InitPath == NoDiffCall /\ \E kind \in PathKinds : InitLayout(<<kind>>)

NextPath ==
  \/ ContainerReady
  \/ \E d \in Dirs : NgAfterViewChecked(d)
  \/ \E d \in Dirs : \E i \in PathInputs(dirs[d].kind) : NgOnChanges(d, i[1], i[2])
  \/ \E d \in Dirs : NgOnDestroy(d)

SpecPath == InitPath /\ [][NextPath]_vars

(***************************************************************************)
(* Properties.                                                             *)
(***************************************************************************)
IsCall(o, name, d) == o.name = name /\ o.dir = d
PolyKinds == {"polyline", "polylineBase", "polygon"}

\* C1 (as stated): for every directive, a view check that runs while the
\* drawing surface is available and the directive has made no shape yet creates
\* a shape of the directive in the container; a directive's first shape appears
\* only in such a view check.
C1_FirstViewCheckCreates_AsStated ==
  [][\A d \in Dirs :
       /\ IsCall(op', "ngAfterViewChecked", d) /\ container /\ OwnedBy(shapes, d) = {}
            => ChildrenOf(children', shapes', d) # {}
       /\ OwnedBy(shapes, d) = {} /\ OwnedBy(shapes', d) # {}
            => IsCall(op', "ngAfterViewChecked", d) /\ container]_vars

\* C1 (amended): the same, except that a polyline or polygon creates its shape
\* in the first such view check that finds its points input non-null.
C1_FirstViewCheckCreates ==
  [][\A d \in Dirs :
       /\ ( /\ IsCall(op', "ngAfterViewChecked", d) /\ container /\ OwnedBy(shapes, d) = {}
            /\ (dirs[d].kind \in PolyKinds => dirs[d].inp.points # NullPoints) )
            => ChildrenOf(children', shapes', d) # {}
       /\ OwnedBy(shapes, d) = {} /\ OwnedBy(shapes', d) # {}
            => IsCall(op', "ngAfterViewChecked", d) /\ container]_vars

\* C1 witness: a polyline whose points arrived after an earlier view check has
\* just created its shape in a later one.
C1_Witness ==
  \E d \in Dirs :
    /\ dirs[d].kind = "polyline" /\ IsCall(op, "ngAfterViewChecked", d)
    /\ ChildrenOf(children, shapes, d) # {}

\* C2: a directive adds at most one shape to the container.
C2_AtMostOneShape == \A d \in Dirs : Cardinality(OwnedBy(shapes, d)) <= 1

\* C3: after ngOnDestroy no shape the directive created is a child of the container.
C3_DestroyRemovesShapes ==
  \A d \in Dirs : dirs[d].destroyed => ChildrenOf(children, shapes, d) = {}


\* The attributes a directive of a kind mirrors from its inputs, fill aside.
Mirrored(kind, i) ==
  CASE kind = "rect" ->
         [width |-> i.width, height |-> i.height, x |-> i.x, y |-> i.y, rx |-> i.rx, ry |-> i.ry]
    [] kind \in {"circle", "circleBase"} ->
         [width |-> i.diameter, height |-> i.diameter,
          cx |-> i.x + i.diameter \div 2, cy |-> i.y + i.diameter \div 2]
    [] kind \in {"ellipse", "ellipseBase"} ->
         [width |-> i.width, height |-> i.height,
          cx |-> i.x + i.width \div 2, cy |-> i.y + i.height \div 2]
    [] kind \in {"line", "lineBase"} ->
         [plot |-> <<i.x0, i.y0, i.x1, i.y1>>, stroke |-> i.borderColor, strokeWidth |-> i.borderSize]
    [] kind \in PolyKinds ->
         [plot |-> i.points, stroke |-> i.borderColor, strokeWidth |-> i.borderSize]
    [] kind \in {"path", "pathBase"} ->
         [plot |-> i.path, stroke |-> i.borderColor, strokeWidth |-> i.borderSize,
          x |-> i.x, y |-> i.y]
    [] kind \in {"text", "textBase"} ->
         [text |-> i.text, fontSize |-> i.size, x |-> i.x, y |-> i.y]
    [] kind = "image" ->
         [href |-> i.imageUrl, width |-> i.width, height |-> i.height, x |-> i.x, y |-> i.y]

Mirrors(sh, dir) ==
  \A a \in DOMAIN Mirrored(dir.kind, dir.inp) :
    a \in DOMAIN sh.attr /\ sh.attr[a] = Mirrored(dir.kind, dir.inp)[a]

\* C4: after ngOnChanges on a directive whose shape is in the container, every
\* mirrored geometry and content attribute of the shape equals the input.
C4_ChangesMirrored ==
  [][\A d \in Dirs :
       IsCall(op', "ngOnChanges", d) /\ ChildrenOf(children, shapes, d) # {}
         => \A s \in ChildrenOf(children', shapes', d) : Mirrors(shapes'[s], dirs'[d])]_vars

\* The directives with a fill or colour input, and that input.
FillKinds == Kinds \ {"line", "lineBase", "image"}
FillInput(dir) ==
  IF dir.kind \in PolyKinds \cup {"path", "pathBase"} THEN dir.inp.fill ELSE dir.inp.color

\* C5: setting the fill or colour input to a non-empty value and delivering
\* ngOnChanges while the shape exists leaves the shape's fill equal to it.
C5_FillApplied ==
  [][\A d \in Dirs :
       ( /\ IsCall(op', "ngOnChanges", d) /\ dirs[d].kind \in FillKinds
         /\ ChildrenOf(children, shapes, d) # {}
         /\ FillInput(dirs'[d]) # FillInput(dirs[d]) /\ FillInput(dirs'[d]) # "" )
         => \A s \in ChildrenOf(children', shapes', d) :
              shapes'[s].attr.fill = FillInput(dirs'[d])]_vars

\* A step in which directive d creates its shape, or updates it.
Created(d) ==
  IsCall(op', "ngAfterViewChecked", d) /\ dirs[d].shape = Null /\ dirs'[d].shape # Null
Updated(d) ==
  /\ IsCall(op', "ngOnChanges", d) /\ dirs[d].shape # Null
  /\ dirs[d].kind \in PolyKinds => dirs'[d].inp.points # NullPoints
  /\ dirs[d].kind \in {"text", "textBase"} => dirs'[d].inp.text # ""

\* C6: after a directive creates or updates its shape, the shape's index among
\* the container's children is the host element's index among its siblings,
\* whenever the container has a child at that index.
C6_ShapeIndexIsHostIndex ==
  [][\A d \in Dirs :
       (Created(d) \/ Updated(d)) /\ Get(children', IndexOf(dom', d)) # Null
         => ShapePosition(children', dirs'[d].shape) = IndexOf(dom', d)]_vars

\* C7: two sibling directives' shapes are in the container in the order of
\* their host elements.
C7_ShapesInHostOrder ==
  \A s1 \in 1..Len(shapes), s2 \in 1..Len(shapes) :
    ( /\ Has(children, s1) /\ Has(children, s2)
      /\ Has(dom, shapes[s1].owner) /\ Has(dom, shapes[s2].owner)
      /\ IndexOf(dom, shapes[s1].owner) < IndexOf(dom, shapes[s2].owner) )
      => IndexOf(children, s1) < IndexOf(children, s2)

\* The elements of sequence source that do not occur in other, in order, stated
\* by positions: the k-th element of the result is the k-th kept element.
Kept(source, other) ==
  {i \in 1..Len(source) : \A j \in 1..Len(other) : other[j] # source[i]}
IsRestOf(result, source, other) ==
  /\ Len(result) = Cardinality(Kept(source, other))
  /\ \A k \in 1..Len(result) :
       \E i \in Kept(source, other) :
         /\ Cardinality({j \in Kept(source, other) : j < i}) = k - 1
         /\ result[k] = source[i]

HasLists(ch) ==
  /\ "classes" \in DOMAIN ch
  /\ ch.classes.previousValue # Undefined /\ ch.classes.currentValue # Undefined

\* C8: getClassesToAddAndRemove returns, for a classes entry of two lists that
\* are not one reference, the previous names missing from the current list as
\* classesToRemove and the current names missing from the previous list as
\* classesToAdd, each in order; with no entry, or one reference, two empty lists.
C8_ClassDiff ==
  op.name = "getClassesToAddAndRemove" =>
    /\ HasLists(changes) /\ changes.classes.previousValue.ref # changes.classes.currentValue.ref
         => /\ ~diff.threw
            /\ IsRestOf(diff.classesToRemove, changes.classes.previousValue.items,
                        changes.classes.currentValue.items)
            /\ IsRestOf(diff.classesToAdd, changes.classes.currentValue.items,
                        changes.classes.previousValue.items)
    /\ ( \/ "classes" \notin DOMAIN changes
         \/ HasLists(changes) /\ changes.classes.previousValue.ref = changes.classes.currentValue.ref )
         => diff = NoDiff

\* C8 witness: the function was called on two different lists and returned
\* names to add and names to remove.
C8_Witness ==
  /\ op.name = "getClassesToAddAndRemove" /\ HasLists(changes)
  /\ diff.classesToAdd # <<>> /\ diff.classesToRemove # <<>>

\* C9: the classes on a directive's shape are exactly the trimmed names of the
\* directive's current classes list.
C9_ClassesMatchInput ==
  \A d \in Dirs :
    dirs[d].shape # Null /\ Has(children, dirs[d].shape)
      => shapes[dirs[d].shape].classes =
           {Trim(dirs[d].inp.classes[k]) : k \in 1..Len(dirs[d].inp.classes)}

OutputOf(evt) ==
  CASE evt = "click" -> "clickEvent"
    [] evt = "dblclick" -> "doubleClickEvent"
    [] evt = "mouseover" -> "mouseOverEvent"
    [] evt = "mouseout" -> "mouseOutEvent"

\* C10: a DOM event on a shape causes exactly one emission, of the output that
\* corresponds to the event.
C10_OneEmissionPerEvent ==
  op.name \in EventTypes =>
    emitted = [o \in Outputs |-> IF o = OutputOf(op.name) THEN 1 ELSE 0]

\* C11: ngOnChanges on a directive that has stored no shape changes no shape,
\* no container child and nothing of the directive, and ends without error.
C11_ChangesBeforeShapeNoOp ==
  [][\A d \in Dirs :
       IsCall(op', "ngOnChanges", d) /\ dirs[d].shape = Null
         => /\ shapes' = shapes /\ children' = children
            /\ error' = NoError
            /\ dirs' = [dirs EXCEPT ![d].inp = dirs'[d].inp]]_vars

\* C11 witness: a change was delivered to a directive without shape while the
\* drawing surface was there, and nothing was made or failed.
C11_Witness ==
  \E d \in Dirs :
    /\ IsCall(op, "ngOnChanges", d) /\ container /\ dirs[d].shape = Null
    /\ dirs[d].inp # DefaultInputs(dirs[d].kind)
    /\ shapes = <<>> /\ error = NoError

\* C12: the class-list diff returns two lists and never throws, whatever the
\* change record, one with an undefined previous or current value included.
C12_DiffNeverThrows ==
  op.name = "getClassesToAddAndRemove" => ~diff.threw /\ error = NoError

\* C13: no hook calls a method of a null shape, and the shape a directive has
\* stored is one it created.
C13_NoCallOnNullShape ==
  /\ error # NullShape
  /\ \A d \in Dirs : dirs[d].shape # Null => dirs[d].shape \in OwnedBy(shapes, d)

\* C13 witness: setAttributes of the base-class ellipse, which has no null
\* check, has just run from ngOnChanges on a stored shape.
C13_Witness ==
  \E d \in Dirs :
    /\ dirs[d].kind = "ellipseBase" /\ IsCall(op, "ngOnChanges", d)
    /\ dirs[d].shape # Null /\ dirs[d].inp.x # 0
    /\ shapes[dirs[d].shape].attr.cx = dirs[d].inp.x + dirs[d].inp.width \div 2
    /\ error = NoError

\* The fill a directive's inputs ask for: a path without fill is transparent.
FillAsked(dir) ==
  IF dir.kind \in {"path", "pathBase"} THEN FillOr(dir.inp.fill) ELSE FillInput(dir)

TrimmedSet(list) == {Trim(list[k]) : k \in 1..Len(list)}

\* The shapes directive d made in this step.
MadeBy(d) == OwnedBy(shapes', d) \ OwnedBy(shapes, d)

\* C14: right after a directive creates its shape, the shape's mirrored
\* attributes, its fill and its classes equal the directive's inputs of that
\* moment, whatever their values.
C14_CreatedShapeMirrorsInputs ==
  [][\A d \in Dirs : \A s \in MadeBy(d) :
       /\ Mirrors(shapes'[s], dirs'[d])
       /\ dirs[d].kind \in FillKinds
            => "fill" \in DOMAIN shapes'[s].attr /\ shapes'[s].attr.fill = FillAsked(dirs'[d])
       /\ shapes'[s].classes = TrimmedSet(dirs'[d].inp.classes)]_vars

\* C15: onInitialize is emitted once, in the view check in which the directive
\* creates its shape, for the shape it stored, when that shape is in the
\* container with its classes; a directive that creates a shape emits it, and
\* no later hook emits it again.
C15_InitializedOnce ==
  [][\A d \in Dirs :
       /\ dirs'[d].inits <= 1
       /\ dirs'[d].inits # dirs[d].inits
            => /\ IsCall(op', "ngAfterViewChecked", d)
               /\ dirs'[d].shape \in MadeBy(d)
               /\ Has(children', dirs'[d].shape)
               /\ shapes'[dirs'[d].shape].classes = TrimmedSet(dirs'[d].inp.classes)
       /\ MadeBy(d) # {} => dirs'[d].inits = 1]_vars

\* Shape s is placed among the container's children ch as its host is among
\* the hosts hs: before the shapes of later hosts, after those of earlier ones.
PlacedAsHost(ch, ss, hs, s) ==
  \A t \in 1..Len(ss) :
    t # s /\ Has(ch, t) /\ Has(hs, ss[t].owner)
      => (IndexOf(ch, s) < IndexOf(ch, t) <=> IndexOf(hs, ss[s].owner) < IndexOf(hs, ss[t].owner))

\* C16: a polyline or polygon creates no shape while its points input is null;
\* the view check that finds points non-null creates the shape, in the
\* container at its host's place among the siblings and with its classes.
C16_PolyCreatesOncePointsSet ==
  [][\A d \in Dirs :
       dirs[d].kind \in PolyKinds
         => /\ dirs'[d].inp.points = NullPoints => MadeBy(d) = {}
            /\ ( /\ IsCall(op', "ngAfterViewChecked", d) /\ container
                 /\ dirs[d].shape = Null /\ dirs[d].inp.points # NullPoints )
                 => /\ dirs'[d].shape \in MadeBy(d)
                    /\ Has(children', dirs'[d].shape)
                    /\ shapes'[dirs'[d].shape].classes = TrimmedSet(dirs'[d].inp.classes)
                    /\ PlacedAsHost(children', shapes', dom', dirs'[d].shape)]_vars

\* A step in which an update runs on d's existing shape while d's points
\* input is null or its text input is empty.
UpdateWithoutContent(d) ==
  /\ IsCall(op', "ngOnChanges", d) /\ dirs[d].shape # Null
  /\ \/ dirs[d].kind \in PolyKinds /\ dirs'[d].inp.points = NullPoints
     \/ dirs[d].kind \in {"text", "textBase"} /\ dirs'[d].inp.text = ""

ImageChange(d) ==
  IsCall(op', "ngOnChanges", d) /\ dirs[d].kind = "image" /\ dirs[d].shape # Null

Differs(d, f) == dirs'[d].inp[f] # dirs[d].inp[f]

\* The step loaded the url into d's image: href set, one more listener of each type.
Loaded(d) ==
  LET s == dirs[d].shape
  IN /\ shapes'[s].attr.href = dirs'[d].inp.imageUrl
     /\ \A e \in EventTypes :
          Len(shapes'[s].listeners[e]) = Len(shapes[s].listeners[e]) + 1

NotLoaded(d) ==
  LET s == dirs[d].shape
  IN /\ shapes'[s].attr.href = shapes[s].attr.href
     /\ shapes'[s].listeners = shapes[s].listeners

\* After the step d's image has the size and position of the inputs.
Sized(d) ==
  \A f \in {"x", "y", "width", "height"} :
    shapes'[dirs[d].shape].attr[f] = dirs'[d].inp[f]

\* C18: on an existing image, ngOnChanges loads the image and applies size and
\* position exactly when imageUrl changed; applies size and position without
\* loading when imageUrl did not change but x, y, width or height did; and
\* neither loads, resizes, moves nor repositions when none of the five changed.
C18_ImageReloadsOnUrlChange ==
  [][\A d \in Dirs :
       ImageChange(d) =>
         LET geometry == \E f \in {"x", "y", "width", "height"} : Differs(d, f)
         IN /\ Differs(d, "imageUrl") => Loaded(d) /\ Sized(d)
            /\ ~Differs(d, "imageUrl") /\ geometry => NotLoaded(d) /\ Sized(d)
            /\ ~Differs(d, "imageUrl") /\ ~geometry
                 => /\ NotLoaded(d)
                    /\ shapes'[dirs[d].shape].attr = shapes[dirs[d].shape].attr
                    /\ children' = children]_vars

\* C18 witness: ngOnChanges has run on an existing image whose url changed: the
\* image carries the new url and the listeners of a second load, and sits
\* before the shape a destroyed sibling left behind.
C18_Witness ==
  \E d \in Dirs :
    /\ dirs[d].kind = "image" /\ IsCall(op, "ngOnChanges", d) /\ dirs[d].shape # Null
    /\ shapes[dirs[d].shape].attr.href = "b.png" /\ dirs[d].inp.imageUrl = "b.png"
    /\ Len(shapes[dirs[d].shape].listeners["click"]) = 2
    /\ dom = <<d>> /\ Len(children) > 1 /\ children[1] = dirs[d].shape

\* The children that are not shapes of d, in container order.
Others(ch, ss, d) == SelectSeq(ch, LAMBDA s : ss[s].owner # d)

\* C19: a creation or an update by directive d, the steps in which d's
\* setCorrectPosition runs, leaves the children that are not d's shapes the
\* same and in the same order, and the update leaves the number of children
\* unchanged.
C19_RepositionKeepsOthers ==
  [][\A d \in Dirs :
       IsCall(op', "ngOnChanges", d) \/ IsCall(op', "ngAfterViewChecked", d)
         => /\ Others(children', shapes', d) = Others(children, shapes', d)
            /\ Len(children') = Len(children) + Cardinality(MadeBy(d))]_vars

\* C19 witness: the second of three shapes, created second, stands between
\* the shape created last and the one created first after an update of its
\* directive: the update moved it in front of the older shape.
C19_Witness ==
  \E d \in Dirs :
    /\ IsCall(op, "ngOnChanges", d) /\ dirs[d].shape = 2
    /\ children = <<3, 2, 1>>

\* C20: ngOnDestroy of directive d takes d's shape, if it holds one, out of
\* the container and nothing else: every shape keeps its attributes, classes
\* and listeners, and the other children stay, in the same order.
C20_DestroyRemovesOwnShapeOnly ==
  [][\A d \in Dirs :
       IsCall(op', "ngOnDestroy", d)
         => /\ shapes' = shapes
            /\ Others(children', shapes, d) = Others(children, shapes, d)
            /\ children' = IF dirs[d].shape = Null THEN children
                            ELSE Without(children, dirs[d].shape)]_vars

\* C20 witness: a directive was destroyed whose shape, created second of
\* three, is gone from the container, while the other two remain, the
\* younger before the older.
C20_Witness ==
  \E d \in Dirs :
    /\ IsCall(op, "ngOnDestroy", d) /\ dirs[d].shape = 2
    /\ children = <<3, 1>>

\* C21: once ngOnDestroy has taken a directive's shape out of the container,
\* no later step puts a shape of that directive into the container, be it a
\* view check or a change delivered to the destroyed directive.
C21_NoShapeAfterDestroy ==
  [][\A d \in Dirs :
       /\ dirs[d].destroyed /\ dirs[d].shape # Null
       /\ ChildrenOf(children, shapes, d) = {}
       => ChildrenOf(children', shapes', d) = {}]_vars

\* C21 witness: a change was delivered to a destroyed directive whose shape
\* ngOnDestroy had removed: the update ran on the removed shape and stopped
\* at the host's missing parent, the sibling's shape alone in the container.
C21_Witness ==
  \E d \in Dirs :
    /\ dirs[d].destroyed /\ dirs[d].shape # Null /\ IsCall(op, "ngOnChanges", d)
    /\ error = NoParent
    /\ Len(children) = 1 /\ ~Has(children, dirs[d].shape)

\* The shape has its centre half its size after the point (x, y) of the inputs.
CentredOn(sh, i, kind) ==
  LET w == IF kind \in {"circle", "circleBase"} THEN i.diameter ELSE i.width
      h == IF kind \in {"circle", "circleBase"} THEN i.diameter ELSE i.height
  IN /\ sh.attr.cx = ToNumber(i.x) + ToNumber(w) \div 2
     /\ sh.attr.cy = ToNumber(i.y) + ToNumber(h) \div 2

\* C22: a circle or ellipse directive that creates or updates its shape puts
\* the shape's centre at the number x + width/2, y + height/2, whether x and
\* y are numbers or numeric strings, in the standalone and the base-class
\* versions.
C22_CentreIsNumericSum ==
  [][\A d \in Dirs :
       dirs[d].kind \in CentreKinds =>
         /\ \A s \in MadeBy(d) : CentredOn(shapes'[s], dirs'[d].inp, dirs[d].kind)
         /\ IsCall(op', "ngOnChanges", d) /\ dirs[d].shape # Null
              => CentredOn(shapes'[dirs[d].shape], dirs'[d].inp, dirs[d].kind)]_vars

\* The change record of the step that delivered one input to d: the input
\* that differs, or the classes when none does.
Delivered(d) ==
  LET old == dirs[d].inp
      new == dirs'[d].inp
      F == {f \in DOMAIN old \ {"classes"} : new[f] # old[f]}
  IN IF F = {} THEN SimpleChanges("classes", old.classes, new.classes)
     ELSE LET f == CHOOSE f \in F : TRUE IN SimpleChanges(f, old[f], new[f])

\* The state after ngOnChanges runs once more on the state the step left.
Redelivered(d) == ngOnChanges(State(dirs', shapes', children'), d, Delivered(d))

\* C23: when ngOnChanges has run on a directive with a shape, delivering the
\* same record again with no input changed leaves the shape's attributes,
\* its classes and the order of the container's children as they are.
C23_UpdateIdempotent ==
  [][\A d \in Dirs :
       IsCall(op', "ngOnChanges", d) /\ dirs[d].shape # Null
         => /\ Redelivered(d).shapes[dirs[d].shape].attr = shapes'[dirs[d].shape].attr
            /\ Redelivered(d).shapes[dirs[d].shape].classes = shapes'[dirs[d].shape].classes
            /\ Redelivered(d).children = children']_vars

\* C23 witness: an update replaced the class of a shape and moved it before
\* the shape a destroyed sibling left behind.
C23_Witness ==
  \E d \in Dirs :
    /\ IsCall(op, "ngOnChanges", d) /\ dirs[d].shape # Null
    /\ dirs[d].inp.classes = <<"b">> /\ shapes[dirs[d].shape].classes = {"b"}
    /\ dom = <<d>> /\ Len(children) = 2 /\ children[1] = dirs[d].shape
    /\ dirs[d].shape > children[2]

\* C24: a view check of a directive that has a shape already changes no
\* shape, adds no child, moves none, and emits nothing.
C24_ViewCheckNoOpOnceCreated ==
  [][\A d \in Dirs :
       IsCall(op', "ngAfterViewChecked", d) /\ OwnedBy(shapes, d) # {}
         => /\ shapes' = shapes
            /\ children' = children
            /\ dirs'[d].inits = dirs[d].inits]_vars

\* The other version of a line or text directive.
Twin(kind) ==
  CASE kind = "line" -> "lineBase"
    [] kind = "lineBase" -> "line"
    [] kind = "text" -> "textBase"
    [] kind = "textBase" -> "text"

\* What the step's hook leaves when d is of the other version.
AsTwin(d) ==
  LET as(ds) == [ds EXCEPT ![d].kind = Twin(@)]
      call == IF IsCall(op', "ngAfterViewChecked", d)
                THEN ngAfterViewChecked(State(as(dirs), shapes, children), d)
              ELSE IF IsCall(op', "ngOnChanges", d)
                THEN ngOnChanges(State(as([dirs EXCEPT ![d].inp = dirs'[d].inp]),
                                       shapes, children), d, Delivered(d))
              ELSE ngOnDestroy(State(as([dirs EXCEPT ![d].destroyed = TRUE]),
                                     shapes, children), d)
  IN [call EXCEPT !.dirs = as(@)]

\* C25: every hook call on a line or text directive leaves the shapes with
\* their attributes, classes and listeners, the container's children and the
\* number of onInitialize emissions that the same call leaves on the other
\* version of the directive.
C25_BaseEqualsStandalone ==
  [][\A d \in Dirs :
       /\ dirs[d].kind \in {"line", "lineBase", "text", "textBase"}
       /\ op'.dir = d
       /\ op'.name = "ngOnChanges" => dirs[d].shape # Null
       => /\ AsTwin(d).shapes = shapes'
          /\ AsTwin(d).children = children'
          /\ AsTwin(d).dirs = dirs']_vars

\* The shape's fill is the fill input, or the transparent colour when the
\* input is empty.
FilledAs(sh, i) ==
  sh.attr.fill = IF i.fill = "" THEN "rgba(0, 0, 0, 0)" ELSE i.fill

\* C26: a path directive that creates or updates its shape gives it the fill
\* input as fill when that is not empty, and 'rgba(0, 0, 0, 0)' when it is.
C26_PathFillOrTransparent ==
  [][\A d \in Dirs :
       dirs[d].kind \in PathKinds =>
         /\ \A s \in MadeBy(d) : FilledAs(shapes'[s], dirs'[d].inp)
         /\ IsCall(op', "ngOnChanges", d) /\ dirs[d].shape # Null
              => FilledAs(shapes'[dirs[d].shape], dirs'[d].inp)]_vars

\* C26 witness: an update ran on a path whose fill input is empty and whose
\* path was set: the shape is transparent.
C26_Witness ==
  \E d \in Dirs :
    /\ dirs[d].kind \in PathKinds /\ IsCall(op, "ngOnChanges", d)
    /\ dirs[d].shape # Null /\ dirs[d].inp.fill = "" /\ dirs[d].inp.path = "M1"
    /\ shapes[dirs[d].shape].attr.plot = "M1"
    /\ shapes[dirs[d].shape].attr.fill = "rgba(0, 0, 0, 0)"

====
